---- MODULE Spec2Model ----
(***************************************************************************)
(* Pathfinding engine of the maze solver: the grid helpers, the Manhattan  *)
(* ring search (CompletenessFallback), the gradient-descent Navigator      *)
(* (GradientFieldPathfinder) and the orchestrator (IntegratedSolver).      *)
(*                                                                         *)
(* A point is a pair <<x, y>>.  A grid is a record [cells, start, goal]    *)
(* of the fixed size Width x Height; cells maps every point to its type.   *)
(***************************************************************************)
EXTENDS Integers, Sequences, FiniteSets, TLC

\* ------------------------------------------------------------------ bounds

Width == 3
Height == 3
\* the largest number of Wall cells of a grid drawn by an initial state
MaxWalls == 2

\* ------------------------------------------------------------ grid helpers

\* null, for a field or a local that holds an object otherwise
Null == [isNull |-> TRUE]

AllPoints == (0 .. Width - 1) \X (0 .. Height - 1)

isInBounds(p) == p[1] >= 0 /\ p[1] < Width /\ p[2] >= 0 /\ p[2] < Height

pointsEqual(a, b) == a[1] = b[1] /\ a[2] = b[2]

Abs(n) == IF n < 0 THEN -n ELSE n

manhattanDistance(a, b) == Abs(a[1] - b[1]) + Abs(a[2] - b[2])

\* createEmptyGrid(Width, Height, start, goal): the Start type is written
\* first and the Goal type second, so a grid with start = goal holds Goal.
createEmptyGrid(start, goal) ==
    [cells |-> [p \in AllPoints |->
                   IF p = goal THEN "goal"
                   ELSE IF p = start THEN "start"
                   ELSE "empty"],
     start |-> start,
     goal  |-> goal]

\* setCell(grid, p, Wall) for every p of walls
setWalls(g, walls) ==
    [g EXCEPT !.cells = [p \in AllPoints |->
                            IF p \in walls THEN "wall" ELSE g.cells[p]]]

\* the cell's type, "none" for the null of a point out of bounds
getCell(g, p) == IF isInBounds(p) THEN g.cells[p] ELSE "none"

isWalkable_IgnoresWalls(g, p) == getCell(g, p) # "none"

isWalkable(g, p) == getCell(g, p) # "none" /\ getCell(g, p) # "wall"

\* cloneGrid(grid): a deep copy, cell by cell
cloneGrid(g) ==
    [cells |-> [p \in AllPoints |-> g.cells[p]],
     start |-> g.start,
     goal  |-> g.goal]

\* setCell(grid, point, type): the grid it leaves. Out of bounds it returns
\* false and writes nothing; in bounds it overwrites the cell's type, and
\* moves grid.start or grid.goal only when the type is Start or Goal.
setCell(g, point, type) ==
    IF ~isInBounds(point) THEN g
    ELSE LET written == [g EXCEPT !.cells[point] = type]
         IN  IF type = "start" THEN [written EXCEPT !.start = point]
             ELSE IF type = "goal" THEN [written EXCEPT !.goal = point]
             ELSE written

\* updateStartGoal(grid, newStart, newGoal): the grid it returns. The old
\* start and goal cells (where they exist) become Empty, the coordinates are
\* replaced whatever they are, and the new cells are typed when in bounds.
updateStartGoal(g, newStart, newGoal) ==
    LET newGrid  == cloneGrid(g)
        clearedS == IF isInBounds(newGrid.start)
                    THEN [newGrid EXCEPT !.cells[newGrid.start] = "empty"]
                    ELSE newGrid
        clearedG == IF isInBounds(clearedS.goal)
                    THEN [clearedS EXCEPT !.cells[clearedS.goal] = "empty"]
                    ELSE clearedS
        moved    == [clearedG EXCEPT !.start = newStart, !.goal = newGoal]
        typedS   == IF isInBounds(newStart)
                    THEN [moved EXCEPT !.cells[newStart] = "start"]
                    ELSE moved
    IN  IF isInBounds(newGoal)
        THEN [typedS EXCEPT !.cells[newGoal] = "goal"]
        ELSE typedS

\* up, down, left, right, the walkable ones, in that order
getWalkableNeighbors(g, p) ==
    SelectSeq(<< <<p[1], p[2] - 1>>, <<p[1], p[2] + 1>>,
                 <<p[1] - 1, p[2]>>, <<p[1] + 1, p[2]>> >>,
              LAMBDA n : isWalkable(g, n))

\* The grids an editor or a generator hands over: start and goal in bounds
\* and not Wall, at most MaxWalls Wall cells.
Grids ==
    { setWalls(createEmptyGrid(s, t), w) :
        <<s, t, w>> \in { <<s, t, w>> \in AllPoints \X AllPoints \X SUBSET AllPoints :
                             /\ Cardinality(w) <= MaxWalls
                             /\ s \notin w
                             /\ t \notin w } }

\* The grids the orchestrator is run on: start on the left edge, the goal at
\* start, on the right edge or in the far corner, over an open grid, one
\* with the centre walled and one with the far corner walled off.
SolverGrids ==
    { g \in Grids :
        /\ g.start = <<0, 1>>
        /\ g.goal \in { <<0, 1>>, <<Width - 1, 1>>, <<Width - 1, Height - 1>> }
        /\ { p \in AllPoints : g.cells[p] = "wall" } \in
              { {}, { <<1, 1>> },
                { <<Width - 2, Height - 1>>, <<Width - 1, Height - 2>> } } }

\* ---------------------------------------------- reachability (reference)

\* Stated on the cell types themselves, not through the solvers' helpers.
NotWall(g, p) == p \in AllPoints /\ g.cells[p] # "wall"

Adjacent4(a, b) ==
    \/ (a[1] = b[1] /\ (a[2] - b[2] = 1 \/ b[2] - a[2] = 1))
    \/ (a[2] = b[2] /\ (a[1] - b[1] = 1 \/ b[1] - a[1] = 1))

RECURSIVE ReachClosure(_, _)
ReachClosure(g, S) ==
    LET T == S \cup { n \in AllPoints :
                        /\ NotWall(g, n)
                        /\ \E p \in S : Adjacent4(p, n) }
    IN  IF T = S THEN S ELSE ReachClosure(g, T)

\* the 4-connected walkable component of p
Component(g, p) == ReachClosure(g, {p})

Reachable(g) == g.goal \in Component(g, g.start)

\* the breadth-first distance from the cells S (at distance d from start)
\* to the goal, -1 if there is none
RECURSIVE BfsDistance(_, _, _)
BfsDistance(g, S, d) ==
    IF g.goal \in S THEN d
    ELSE LET T == S \cup { n \in AllPoints :
                             /\ NotWall(g, n)
                             /\ \E p \in S : Adjacent4(p, n) }
         IN  IF T = S THEN -1 ELSE BfsDistance(g, T, d + 1)

ShortestDistance(g) == BfsDistance(g, {g.start}, 0)

\* -------------------------------------------------- the ring search state

\* the comparator of both sorts: by x, then by y
PointBefore(a, b) == a[1] < b[1] \/ (a[1] = b[1] /\ a[2] < b[2])

RECURSIVE InsertSorted(_, _)
InsertSorted(s, p) ==
    IF s = <<>> THEN <<p>>
    ELSE IF PointBefore(p, Head(s)) THEN <<p>> \o s
    ELSE <<Head(s)>> \o InsertSorted(Tail(s), p)

RECURSIVE SortPoints(_)
SortPoints(s) ==
    IF s = <<>> THEN <<>>
    ELSE InsertSorted(SortPoints(SubSeq(s, 1, Len(s) - 1)), s[Len(s)])

EmptyMap == [p \in {} |-> <<0, 0>>]

initializeState(g) ==
    [visited       |-> {g.start},
     currentRing   |-> <<g.start>>,
     nextRing      |-> <<>>,
     distance      |-> 0,
     parent        |-> EmptyMap,
     exploredCount |-> 1]

\* the ring a newly discovered neighbour at Manhattan distance d from start
\* is pushed to: "next", "current", or "none" (it is pushed nowhere)
RingOf(d, distance) ==
    IF d = distance + 1 THEN "next"
    ELSE IF d = distance THEN "current"
    ELSE "none"

\* one turn of the for-loop of processSingleCell over neighbour n
VisitNeighbor(g, st, current, n) ==
    IF n \in st.visited THEN st
    ELSE LET ring == RingOf(manhattanDistance(n, g.start), st.distance)
         IN  [st EXCEPT
                !.visited = @ \cup {n},
                !.parent = (n :> current) @@ @,
                !.exploredCount = @ + 1,
                !.nextRing = IF ring = "next" THEN Append(@, n) ELSE @,
                !.currentRing = IF ring = "current" THEN Append(@, n) ELSE @]

RECURSIVE VisitNeighbors(_, _, _, _)
VisitNeighbors(g, st, current, ns) ==
    IF ns = <<>> THEN st
    ELSE VisitNeighbors(g, VisitNeighbor(g, st, current, Head(ns)), current, Tail(ns))

\* processSingleCell: [state, current, goalFound]
processSingleCell(g, st) ==
    LET current == Head(st.currentRing)
        shifted == [st EXCEPT !.currentRing = Tail(@)]
    IN  IF pointsEqual(current, g.goal)
        THEN [state |-> shifted, current |-> current, goalFound |-> TRUE]
        ELSE [state |-> VisitNeighbors(g, shifted, current,
                                       SortPoints(getWalkableNeighbors(g, current))),
              current |-> current,
              goalFound |-> FALSE]

advanceToNextRing(st) ==
    [st EXCEPT !.currentRing = SortPoints(st.nextRing),
               !.nextRing = <<>>,
               !.distance = @ + 1]

\* reconstructPath: follow the parent pointers from goal back to start; a
\* cell without a parent ends the walk (the code logs and breaks)
RECURSIVE PathBack(_, _, _)
PathBack(g, st, current) ==
    IF pointsEqual(current, g.start) THEN <<>>
    ELSE IF current \in DOMAIN st.parent
         THEN PathBack(g, st, st.parent[current]) \o <<current>>
         ELSE <<current>>

reconstructPath_WithoutStart(g, st, goal) == PathBack(g, st, goal)

reconstructPath(g, st, goal) == <<g.start>> \o PathBack(g, st, goal)

FallbackResult_CountsMoves(st, goalReached, finalPath, existingExploredCount) ==
    [path          |-> finalPath,
     exploredCount |-> st.exploredCount + existingExploredCount,
     frontierCount |-> Len(st.nextRing),
     pathLength    |-> IF finalPath = <<>> THEN 0 ELSE Len(finalPath) - 1,
     success       |-> goalReached,
     algorithmName |-> "Completeness Fallback (Manhattan Ring Search)",
     usedFallback  |-> TRUE]

\* the PathfindingResult of CompletenessFallback.findPath
FallbackResult(st, goalReached, finalPath, existingExploredCount) ==
    [path          |-> finalPath,
     exploredCount |-> st.exploredCount + existingExploredCount,
     frontierCount |-> Len(st.nextRing),
     pathLength    |-> Len(finalPath),
     success       |-> goalReached,
     algorithmName |-> "Completeness Fallback (Manhattan Ring Search)",
     usedFallback  |-> TRUE]


\* ------------------------------------------------ the Navigator's state
\* GradientFieldPathfinder.  The potential and gradient fields, the velocity
\* and the position are real-valued; the model keeps the integer cell under
\* the position (the key of visitedPositions and exploredCells) and whether
\* the position is within goalThreshold of the goal, and draws the outcome of
\* the real-valued arithmetic of a step from every outcome the code allows.

\* visitCount > 3 is "stuck"
VisitLimit == 3
\* visitedPositions is cleared on every 5th escape
EscapeClearEvery == 5

initializeNavState_NotReached(g) ==
    [cell             |-> g.start,
     reached          |-> FALSE,
     iteration        |-> 0,
     stuckCounter     |-> 0,
     visitedPositions |-> [p \in AllPoints |-> 0],
     exploredCells    |-> {},
     path             |-> <<g.start>>]

initializeNavState(g) ==
    [cell             |-> g.start,
     reached          |-> pointsEqual(g.start, g.goal),
     iteration        |-> 0,
     stuckCounter     |-> 0,
     visitedPositions |-> [p \in AllPoints |-> 0],
     exploredCells    |-> {},
     path             |-> <<g.start>>]

\* the cells a move of at most one unit per axis can end in
Around(c) ==
    { n \in AllPoints : Abs(n[1] - c[1]) <= 1 /\ Abs(n[2] - c[2]) <= 1 }

calculateNextPosition_WithoutWallCheck(g, c) ==
    { n \in Around(c) : n[1] <= Width - 2 /\ n[2] <= Height - 2 }

\* calculateNextPosition: the cells the returned position can lie in.  The
\* velocity has length 1 or 0.  position + velocity is clamped to
\* [0.1, width - 1.1] x [0.1, height - 1.1], so its cell is never in the last
\* column or row; it is returned if walkable.  If it is a Wall, the first
\* walkable of the four alternatives (none of them clamped, each at most the
\* velocity away) is returned, or else the position itself.
calculateNextPosition(g, c) ==
    LET clamped == { n \in Around(c) : n[1] <= Width - 2 /\ n[2] <= Height - 2 }
    IN  { n \in clamped : isWalkable(g, n) }
        \cup (IF \E n \in clamped : ~isWalkable(g, n)
              THEN { n \in Around(c) : isWalkable(g, n) } \cup {c}
              ELSE {})

\* clamp(value, min, max)
clamp(value, lo, hi) ==
    IF value < lo THEN lo ELSE IF value > hi THEN hi ELSE value

\* buildPotentialField's wavefront from the goal gives a finite potential to
\* the cells it reaches; every other cell, Walls included, keeps Infinity (the
\* repulsion is not added to an infinite potential)
RECURSIVE wavefront(_, _)
wavefront(g, reached) ==
    LET more == UNION { { getWalkableNeighbors(g, p)[i] :
                            i \in 1 .. Len(getWalkableNeighbors(g, p)) } :
                        p \in reached }
    IN  IF more \subseteq reached
        THEN reached
        ELSE wavefront(g, reached \cup more)

\* the cells whose potential is finite
buildPotentialField(g) == wavefront(g, {g.goal})

\* Infinity in a potential: above every finite wavefront value, which is at
\* most the number of cells
Infinity == Width * Height

RECURSIVE relaxNeighbors_WithoutIncrement(_, _, _, _)
relaxNeighbors_WithoutIncrement(potential, queue, neighbors, value) ==
    IF neighbors = <<>>
    THEN [potential |-> potential, queue |-> queue]
    ELSE LET neighbor == Head(neighbors)
             newValue == value
         IN  IF newValue < potential[neighbor]
             THEN relaxNeighbors_WithoutIncrement(
                      [potential EXCEPT ![neighbor] = newValue],
                      Append(queue, [point |-> neighbor, value |-> newValue]),
                      Tail(neighbors), value)
             ELSE relaxNeighbors_WithoutIncrement(potential, queue,
                                                  Tail(neighbors), value)

RECURSIVE relaxNeighbors(_, _, _, _)
\* the for loop over the neighbors of the dequeued point: a neighbor whose
\* potential is above value + 1 takes it and is pushed on the queue
relaxNeighbors(potential, queue, neighbors, value) ==
    IF neighbors = <<>>
    THEN [potential |-> potential, queue |-> queue]
    ELSE LET neighbor == Head(neighbors)
             newValue == value + 1
         IN  IF newValue < potential[neighbor]
             THEN relaxNeighbors([potential EXCEPT ![neighbor] = newValue],
                                 Append(queue, [point |-> neighbor, value |-> newValue]),
                                 Tail(neighbors), value)
             ELSE relaxNeighbors(potential, queue, Tail(neighbors), value)

RECURSIVE wavefrontExpansion(_, _, _)
\* the while loop of buildPotentialField
wavefrontExpansion(g, potential, queue) ==
    IF queue = <<>>
    THEN potential
    ELSE LET point   == Head(queue).point
             value   == Head(queue).value
             relaxed == relaxNeighbors(potential, Tail(queue),
                                       getWalkableNeighbors(g, point), value)
         IN  wavefrontExpansion(g, relaxed.potential, relaxed.queue)

\* the potential array of buildPotentialField before addRepulsivePotential
wavefrontPotential(g) ==
    wavefrontExpansion(g,
                       [p \in AllPoints |-> IF p = g.goal THEN 0 ELSE Infinity],
                       << [point |-> g.goal, value |-> 0] >>)

\* computePartialDerivative returns 0 because one of the potentials it
\* reads is Infinity
partialIsZero(potential, p, dx, dy) ==
    LET p1 == << clamp(p[1] - dx, 0, Width - 1), clamp(p[2] - dy, 0, Height - 1) >>
        p2 == << clamp(p[1] + dx, 0, Width - 1), clamp(p[2] + dy, 0, Height - 1) >>
    IN  p1 \notin potential \/ p2 \notin potential

\* computeGradientField leaves {0, 0} at cell p: a Wall, or both partial
\* derivatives are 0
gradientIsZero(g, potential, p) ==
    \/ getCell(g, p) = "wall"
    \/ partialIsZero(potential, p, 1, 0) /\ partialIsZero(potential, p, 0, 1)

\* getGradientAtPosition returns {0, 0} at every position in cell c: the
\* bounds check, or the four gradients it interpolates are all 0
gradientVanishes(g, c) ==
    \/ c[1] >= Width - 1
    \/ c[2] >= Height - 1
    \/ LET potential == buildPotentialField(g)
       IN  \A q \in { c, <<c[1] + 1, c[2]>>, <<c[1], c[2] + 1>>, <<c[1] + 1, c[2] + 1>> } :
              gradientIsZero(g, potential, q)

\* the velocity is still {0, 0}: it has not been perturbed, and the position
\* has only been in the start's cell (which the clamp does not move it out
\* of), where the gradient vanishes
velocityIsZero(g, st) ==
    /\ st.stuckCounter = 0
    /\ \A i \in 1 .. Len(st.path) : pointsEqual(st.path[i], g.start)
    /\ g.start[1] <= Width - 2
    /\ g.start[2] <= Height - 2
    /\ gradientVanishes(g, g.start)

\* the cells the next position of performStep can lie in: with a zero
\* velocity the position stays where it is
nextPositionCells(g, st) ==
    IF velocityIsZero(g, st)
    THEN {st.cell}
    ELSE calculateNextPosition(g, st.cell)

\* isGoalReached after a move into cell n: the distance to the goal can be
\* below goalThreshold (0.5) only in the goal's cell or the one before it on
\* either axis
isGoalReached(g, n) ==
    IF /\ g.goal[1] - n[1] \in {0, 1}
       /\ g.goal[2] - n[2] \in {0, 1}
    THEN BOOLEAN
    ELSE {FALSE}

attemptEscape_KeepsCounter(opts, st) ==
    IF opts.enableRandomness /\ st.stuckCounter < opts.escapeAttempts
    THEN [state |-> st, thrown |-> FALSE]
    ELSE [state |-> st, thrown |-> TRUE]

attemptEscape_IgnoresRandomness(opts, st) ==
    LET stuck == st.stuckCounter + 1
    IN  IF stuck < opts.escapeAttempts
        THEN [state |-> [st EXCEPT
                           !.stuckCounter = stuck,
                           !.visitedPositions =
                               IF stuck % EscapeClearEvery = 0
                               THEN [p \in AllPoints |-> 0]
                               ELSE @],
              thrown |-> FALSE]
        ELSE [state |-> [st EXCEPT !.stuckCounter = stuck],
              thrown |-> TRUE]

attemptEscape_AlwaysThrows(opts, st) ==
    [state |-> [st EXCEPT !.stuckCounter = @ + 1], thrown |-> TRUE]

\* attemptEscape: [state, thrown]
attemptEscape(opts, st) ==
    LET stuck == st.stuckCounter + 1
    IN  IF opts.enableRandomness /\ stuck < opts.escapeAttempts
        THEN [state |-> [st EXCEPT
                           !.stuckCounter = stuck,
                           !.visitedPositions =
                               IF stuck % EscapeClearEvery = 0
                               THEN [p \in AllPoints |-> 0]
                               ELSE @],
              thrown |-> FALSE]
        ELSE [state |-> [st EXCEPT !.stuckCounter = stuck],
              thrown |-> TRUE]

\* performStep with the next position in cell n and isGoalReached() = r
\* after it: [state, thrown]
performStep(opts, st, n, r) ==
    IF st.visitedPositions[n] > VisitLimit
    THEN attemptEscape(opts, st)
    ELSE [state |-> [st EXCEPT
                       !.cell = n,
                       !.reached = r,
                       !.visitedPositions[n] = @ + 1,
                       !.exploredCells = @ \cup {n},
                       !.path = Append(@, n),
                       !.iteration = @ + 1],
          thrown |-> FALSE]

NavigatorResult_AlwaysSuccess(g, st) ==
    LET finalPath == Append(st.path, g.goal)
    IN  [path          |-> finalPath,
         exploredCount |-> Cardinality(st.exploredCells),
         pathLength    |-> Len(finalPath),
         success       |-> TRUE,
         algorithmName |-> "Gradient Field Pathfinding",
         usedFallback  |-> FALSE]

\* the result navigateGradientField builds once its loop has ended, as
\* GradientFieldPathfinder.findPath returns it
NavigatorResult(g, st) ==
    LET finalPath == IF st.reached THEN Append(st.path, g.goal) ELSE st.path
    IN  [path          |-> finalPath,
         exploredCount |-> Cardinality(st.exploredCells),
         pathLength    |-> Len(finalPath),
         success       |-> st.reached,
         algorithmName |-> "Gradient Field Pathfinding",
         usedFallback  |-> FALSE]

\* ------------------------- CompletenessFallback.findPath as one call

\* the loops of findPath from state st on: [state, goalReached]
RECURSIVE RingLoop(_, _)
RingLoop(g, st) ==
    IF st.currentRing = <<>>
    THEN LET a == advanceToNextRing(st)
         IN  IF a.currentRing = <<>>
             THEN [state |-> a, goalReached |-> FALSE]
             ELSE RingLoop(g, a)
    ELSE LET r == processSingleCell(g, st)
         IN  IF r.goalFound
             THEN [state |-> r.state, goalReached |-> TRUE]
             ELSE RingLoop(g, r.state)

\* findPath(existingExploredCount): [state, result]
fallbackFindPath(g, existingExploredCount) ==
    LET run == RingLoop(g, initializeState(g))
    IN  [state  |-> run.state,
         result |-> FallbackResult(run.state, run.goalReached,
                       IF run.goalReached
                       THEN reconstructPath(g, run.state, g.goal)
                       ELSE <<>>,
                       existingExploredCount)]

\* ------------------------------------------------- IntegratedSolver

mergeResults(primaryResult, fallbackResult) ==
    [path          |-> fallbackResult.path,
     exploredCount |-> primaryResult.exploredCount + fallbackResult.exploredCount,
     frontierCount |-> fallbackResult.frontierCount,
     pathLength    |-> fallbackResult.pathLength,
     success       |-> fallbackResult.success,
     algorithmName |-> "Integrated Novel Solver (Gradient Field + Completeness Fallback)",
     usedFallback  |-> TRUE]

\* the "No path found" result that ends findPath
FailedResult(primaryResult, usedFallback) ==
    [path          |-> <<>>,
     exploredCount |-> IF primaryResult = Null THEN 0 ELSE primaryResult.exploredCount,
     frontierCount |-> 0,
     pathLength    |-> 0,
     success       |-> FALSE,
     algorithmName |-> "Integrated Novel Solver (Failed)",
     usedFallback  |-> usedFallback]

\* the try/catch around the primary attempt.  primary is what awaiting
\* attemptPrimaryPathfinding gave: [kind |-> "result", result |-> r] or
\* [kind |-> "error", error |-> e].  The answer says how findPath goes on:
\* "return" (the Navigator's result is returned), "continue" (to phase 2,
\* with the primaryResult local, Null after a caught error) or "throw".
TryPrimary_WithoutCatch(primary) ==
    IF primary.kind = "error"
    THEN [next |-> "throw", primaryResult |-> Null]
    ELSE IF primary.result.success
         THEN [next |-> "return", primaryResult |-> primary.result]
         ELSE [next |-> "continue", primaryResult |-> primary.result]

TryPrimary(primary) ==
    IF primary.kind = "error"
    THEN [next |-> "continue", primaryResult |-> Null]
    ELSE IF primary.result.success
         THEN [next |-> "return", primaryResult |-> primary.result]
         ELSE [next |-> "continue", primaryResult |-> primary.result]

\* if (this.options.enableFallback)
FallbackEnabled_Always(opts) == TRUE

FallbackEnabled(opts) == opts.enableFallback

\* primaryResult?.exploredCount || 0
existingExploredCount(primaryResult) ==
    IF primaryResult = Null THEN 0 ELSE primaryResult.exploredCount

\* the result of a successful fallback: merged if requested and there is a
\* primary result, the fallback's own otherwise
SuccessfulFallbackResult(opts, primaryResult, fallbackResult) ==
    IF opts.mergeStats /\ primaryResult # Null
    THEN mergeResults(primaryResult, fallbackResult)
    ELSE [fallbackResult EXCEPT !.usedFallback = TRUE]

\* the options a solver is constructed with (the real-valued ones belong to
\* the arithmetic the model draws from)
SolverOptions ==
    [maxIterations    : {1, VisitLimit + 2},
     enableRandomness : BOOLEAN,
     escapeAttempts   : {2},
     enableFallback   : BOOLEAN,
     mergeStats       : BOOLEAN]

\* ------------------------------------------------------------------ state

VARIABLES
    grid,        \* the Grid the solvers were constructed with
    fbState,     \* CompletenessFallback.state (Null before the first run)
    fbPc,        \* where CompletenessFallback.findPath stands
    fbExisting,  \* the existingExploredCount argument of the running findPath
    fbResult,    \* the result CompletenessFallback.findPath returned
    options,     \* IntegratedSolver.options
    navState,    \* GradientFieldPathfinder.state (Null before the first run)
    pc,          \* where IntegratedSolver.findPath stands
    jobs,        \* the promise jobs (microtasks) waiting to run
    timer,       \* the primaryTimeout timer: "unset", "armed", "cleared", "fired"
    deadline,    \* primaryTimeout ms after the timer was armed: "ahead", or when
                 \* it passed, "duringRun" (of the Navigator) or "afterRun"
    primary,     \* what awaiting attemptPrimaryPathfinding() gave
    outcome,     \* how the promise of IntegratedSolver.findPath settled
    yielded,     \* the steps IntegratedSolver.stepIterator has yielded so far
    gen,         \* the locals of a running generateRandomObstaclesMaze call
    potentialField, \* what GradientFieldPathfinder.buildPotentialField's wavefront built
    stepper      \* the fields IntegratedSolver.step() works on

ringVars == <<fbState, fbPc, fbExisting, fbResult>>
solverVars == <<options, navState, pc, jobs, timer, deadline, primary, outcome, yielded>>
\* what a run of stepIterator leaves alone
findPathVars == <<fbPc, fbExisting, fbResult, jobs, timer, deadline, primary, outcome>>

vars == <<grid, ringVars, solverVars, gen, potentialField, stepper>>

\* ------------------------------------- CompletenessFallback.findPath, alone

RingInit ==
    /\ grid \in Grids
    /\ fbState = Null
    /\ fbPc = "idle"
    /\ fbExisting = 0
    /\ fbResult = Null
    /\ options = Null
    /\ navState = Null
    /\ pc = "idle"
    /\ jobs = <<>>
    /\ timer = "unset"
    /\ deadline = "ahead"
    /\ primary = Null
    /\ outcome = Null
    /\ yielded = <<>>
    /\ potentialField = Null
    /\ stepper = Null
    /\ gen = Null

beginFindPath_KeepsVisited(g, st) ==
    IF st = Null
    THEN initializeState(g)
    ELSE [initializeState(g) EXCEPT !.visited = st.visited]

\* findPath() on an instance whose state is st (Null, or what an earlier run
\* left): initializeState() replaces it
beginFindPath(g, st) == initializeState(g)

\* the result findPath returns when its loops go on from state st
RingOutcome(g, st, existing) ==
    LET run == RingLoop(g, st)
    IN  FallbackResult(run.state, run.goalReached,
           IF run.goalReached
           THEN reconstructPath(g, run.state, g.goal)
           ELSE <<>>,
           existing)

\* findPath(), on a new instance or again on one that has run: the state is
\* initialized and the loops are entered (the ring holds start)
FbFindPath ==
    /\ fbPc \in {"idle", "done"}
    /\ fbState' = beginFindPath(grid, fbState)
    /\ fbPc' = "ring"
    /\ UNCHANGED <<gen, potentialField, stepper, grid, fbExisting, fbResult, solverVars>>

\* one turn of processCurrentRing's loop; on the goal, findPath reconstructs
\* the path and returns
FbProcessSingleCell ==
    /\ fbPc = "ring"
    /\ fbState.currentRing # <<>>
    /\ LET r == processSingleCell(grid, fbState)
       IN  /\ fbState' = r.state
           /\ IF r.goalFound
              THEN /\ fbResult' = FallbackResult(r.state, TRUE,
                                     reconstructPath(grid, r.state, grid.goal),
                                     fbExisting)
                   /\ fbPc' = "done"
              ELSE /\ fbResult' = fbResult
                   /\ fbPc' = "ring"
    /\ UNCHANGED <<gen, potentialField, stepper, grid, fbExisting, solverVars>>

\* the current ring is exhausted: advanceToNextRing, then the outer loop's
\* test; an empty new ring ends findPath without a path
FbAdvanceToNextRing ==
    /\ fbPc = "ring"
    /\ fbState.currentRing = <<>>
    /\ LET st == advanceToNextRing(fbState)
       IN  /\ fbState' = st
           /\ IF st.currentRing = <<>>
              THEN /\ fbResult' = FallbackResult(st, FALSE, <<>>, fbExisting)
                   /\ fbPc' = "done"
              ELSE /\ fbResult' = fbResult
                   /\ fbPc' = "ring"
    /\ UNCHANGED <<gen, potentialField, stepper, grid, fbExisting, solverVars>>

RingNext == FbFindPath \/ FbProcessSingleCell \/ FbAdvanceToNextRing

RingSpec == RingInit /\ [][RingNext]_vars

\* ------------------------------------------- IntegratedSolver.findPath

Init ==
    /\ grid \in SolverGrids
    /\ options \in SolverOptions
    /\ fbState = Null
    /\ fbPc = "idle"
    /\ fbExisting = 0
    /\ fbResult = Null
    /\ navState = Null
    /\ pc = "idle"
    /\ jobs = <<>>
    /\ timer = "unset"
    /\ deadline = "ahead"
    /\ primary = Null
    /\ outcome = Null
    /\ yielded = <<>>
    /\ potentialField = Null
    /\ stepper = Null
    /\ gen = Null

SolverFindPath_ClearsStart ==
    /\ pc = "idle"
    /\ timer' = "armed"
    /\ navState' = initializeNavState(grid)
    /\ pc' = "navigating"
    /\ grid' = setCell(grid, grid.start, "empty")
    /\ UNCHANGED <<gen, potentialField, stepper, ringVars, options, jobs, deadline, primary, outcome, yielded>>

\* findPath() up to the Navigator's loop: attemptPrimaryPathfinding arms the
\* timer and calls gradientSolver.findPath(), which builds the fields and
\* enters navigateGradientField, all in the same synchronous run
SolverFindPath ==
    /\ pc = "idle"
    /\ timer' = "armed"
    /\ navState' = initializeNavState(grid)
    /\ pc' = "navigating"
    /\ UNCHANGED <<gen, potentialField, stepper, grid, ringVars, options, jobs, deadline, primary, outcome, yielded>>

\* one turn of navigateGradientField's loop.  A thrown stuck error rejects
\* the Navigator's promise; its reaction becomes a promise job.
NavPerformStep ==
    /\ pc = "navigating"
    /\ ~navState.reached
    /\ navState.iteration < options.maxIterations
    /\ \E n \in nextPositionCells(grid, navState) :
       \E r \in isGoalReached(grid, n) :
          LET step == performStep(options, navState, n, r)
          IN  /\ navState' = step.state
              /\ IF step.thrown
                 THEN /\ jobs' = Append(jobs, [kind |-> "error", error |-> "stuck"])
                      /\ pc' = "awaiting"
                 ELSE /\ jobs' = jobs
                      /\ pc' = "navigating"
    /\ UNCHANGED <<gen, potentialField, stepper, grid, ringVars, options, timer, deadline, primary, outcome, yielded>>

\* the loop has ended: the Navigator's promise resolves with its result
NavReturn ==
    /\ pc = "navigating"
    /\ navState.reached \/ navState.iteration >= options.maxIterations
    /\ jobs' = Append(jobs, [kind |-> "result", result |-> NavigatorResult(grid, navState)])
    /\ pc' = "awaiting"
    /\ UNCHANGED <<gen, potentialField, stepper, grid, ringVars, options, navState, timer, deadline, primary, outcome, yielded>>

\* wall-clock time passes the timer's deadline, while the Navigator's
\* synchronous run is still going or after it
Tick ==
    /\ timer = "armed"
    /\ deadline = "ahead"
    /\ deadline' = IF pc = "navigating" THEN "duringRun" ELSE "afterRun"
    /\ UNCHANGED <<gen, potentialField, stepper, grid, ringVars, options, navState, pc, jobs, timer, primary, outcome, yielded>>

\* The event loop, once the synchronous run has ended and findPath is
\* suspended at its await: promise jobs run first (the Navigator's reaction
\* clears the timer and settles the race); the timer's callback runs only
\* in a turn that finds no job waiting.
EventLoopTurn ==
    /\ pc = "awaiting"
    /\ IF jobs # <<>>
       THEN /\ primary' = Head(jobs)
            /\ jobs' = Tail(jobs)
            /\ timer' = "cleared"
       ELSE /\ timer = "armed"
            /\ deadline # "ahead"
            /\ primary' = [kind |-> "error", error |-> "timeout"]
            /\ jobs' = jobs
            /\ timer' = "fired"
    /\ pc' = "resumed"
    /\ UNCHANGED <<gen, potentialField, stepper, grid, ringVars, options, navState, deadline, outcome, yielded>>

\* findPath() from the settled primary attempt to its return
SolverContinue ==
    /\ pc = "resumed"
    /\ LET try == TryPrimary(primary)
           fb  == fallbackFindPath(grid, existingExploredCount(try.primaryResult))
       IN  CASE try.next = "throw" ->
                  /\ outcome' = [kind |-> "rejected", error |-> primary.error]
                  /\ UNCHANGED ringVars
             [] try.next = "return" ->
                  /\ outcome' = [kind |-> "resolved",
                                 result |-> [try.primaryResult EXCEPT !.usedFallback = FALSE]]
                  /\ UNCHANGED ringVars
             [] try.next = "continue" /\ FallbackEnabled(options) ->
                  /\ fbState' = fb.state
                  /\ fbResult' = fb.result
                  /\ fbExisting' = existingExploredCount(try.primaryResult)
                  /\ fbPc' = "done"
                  /\ outcome' = [kind |-> "resolved",
                                 result |-> IF fb.result.success
                                            THEN SuccessfulFallbackResult(options,
                                                     try.primaryResult, fb.result)
                                            ELSE FailedResult(try.primaryResult, TRUE)]
             [] OTHER ->
                  /\ outcome' = [kind |-> "resolved",
                                 result |-> FailedResult(try.primaryResult, FALSE)]
                  /\ UNCHANGED ringVars
    /\ pc' = "done"
    /\ UNCHANGED <<gen, potentialField, stepper, grid, options, navState, jobs, timer, deadline, primary, yielded>>

Next ==
    \/ SolverFindPath
    \/ NavPerformStep
    \/ NavReturn
    \/ Tick
    \/ EventLoopTurn
    \/ SolverContinue

Spec == Init /\ [][Next]_vars

\* ------------------------------------- IntegratedSolver.stepIterator
\*
\* A PathfindingStep is kept as its tag (the bracketed prefix stepIterator
\* puts on the message; the Navigator's and the Ring Search's own steps get
\* theirs when they are forwarded), its message, its path as cells, whether
\* the last element of the path has exactly the goal's coordinates, and its
\* explored cells.  A position of the Navigator is a pair of reals, so the
\* last element of its path can lie in the goal's cell without being equal
\* to the goal.

PathfindingStep(tag, message, path, lastIsGoal, explored) ==
    [tag        |-> tag,
     message    |-> message,
     path       |-> path,
     lastIsGoal |-> lastIsGoal,
     explored   |-> explored]

pathEndsAtGoal_Never(step) == FALSE

\* the test stepIterator makes on every step it has forwarded
pathEndsAtGoal(step) == step.path # <<>> /\ step.lastIsGoal

markExistingExplored_Ignored(st, existingExplored) == st

\* CompletenessFallback.stepIterator(existingExplored) after initializeState:
\* every point of existingExplored is added to visited
markExistingExplored(st, existingExplored) ==
    [st EXCEPT !.visited = @ \cup existingExplored]

\* primaryExplored: step.explored of the last Navigator step forwarded
primaryExplored(ys) ==
    LET gf == SelectSeq(ys, LAMBDA s : s.tag = "Gradient Field")
    IN  IF gf = <<>> THEN {} ELSE gf[Len(gf)].explored

\* the grids stepIterator is run on: those of findPath and the ones with the
\* goal next to start, where a unit step can land exactly on the goal
IterGrids ==
    { g \in Grids :
        /\ g.start = <<0, 1>>
        /\ g.goal \in { <<0, 1>>, <<1, 1>>, <<Width - 1, 1>>, <<Width - 1, Height - 1>> }
        /\ { p \in AllPoints : g.cells[p] = "wall" }
             \in { {}, { <<1, 1>> }, { <<Width - 2, Height - 1>>, <<Width - 1, Height - 2>> } } }

\* mergeStats plays no part in stepIterator
IterOptions == { o \in SolverOptions : o.mergeStats }

IterInit ==
    /\ grid \in IterGrids
    /\ options \in IterOptions
    /\ fbState = Null
    /\ fbPc = "idle"
    /\ fbExisting = 0
    /\ fbResult = Null
    /\ navState = Null
    /\ pc = "idle"
    /\ jobs = <<>>
    /\ timer = "unset"
    /\ deadline = "ahead"
    /\ primary = Null
    /\ outcome = Null
    /\ yielded = <<>>
    /\ potentialField = Null
    /\ stepper = Null
    /\ gen = Null

\* the first next(): allSteps is emptied and the Navigator's stepIterator is
\* entered, which builds its fields and initializes its state
IterStart ==
    /\ pc = "idle"
    /\ navState' = initializeNavState(grid)
    /\ pc' = "primary"
    /\ UNCHANGED <<gen, potentialField, stepper, grid, options, fbState, yielded, findPathVars>>

\* one turn of the Navigator's loop: performStep, and the step it yields is
\* forwarded and tested; a throw of performStep is caught (primaryFailed)
IterNavStep ==
    /\ pc = "primary"
    /\ ~navState.reached
    /\ navState.iteration < options.maxIterations
    /\ \E n \in nextPositionCells(grid, navState) :
       \E r \in isGoalReached(grid, n) :
       \E onGoal \in BOOLEAN :
          /\ onGoal => (r /\ pointsEqual(n, grid.goal))
          /\ LET s == performStep(options, navState, n, r)
                 moved == s.state.iteration > navState.iteration
                 step == PathfindingStep("Gradient Field",
                            IF moved THEN "Gradient descent step"
                                     ELSE "Escape attempt",
                            s.state.path, moved /\ onGoal,
                            s.state.exploredCells)
             IN  /\ navState' = s.state
                 /\ IF s.thrown
                    THEN /\ yielded' = yielded
                         /\ pc' = "primaryFailed"
                    ELSE /\ yielded' = Append(yielded, step)
                         /\ pc' = IF pathEndsAtGoal(step) THEN "done"
                                                          ELSE "primary"
    /\ UNCHANGED <<gen, potentialField, stepper, grid, options, fbState, findPathVars>>

\* the Navigator's loop has ended: its 'Goal reached!' step if the goal is
\* reached, forwarded and tested, and else the end of its generator
\* (primaryFailed)
IterNavEnd ==
    /\ pc = "primary"
    /\ navState.reached \/ navState.iteration >= options.maxIterations
    /\ IF navState.reached
       THEN LET step == PathfindingStep("Gradient Field", "Goal reached!",
                           Append(navState.path, grid.goal), TRUE,
                           navState.exploredCells)
            IN  /\ yielded' = Append(yielded, step)
                /\ pc' = IF pathEndsAtGoal(step) THEN "done"
                                                 ELSE "primaryFailed"
       ELSE /\ yielded' = yielded
            /\ pc' = "primaryFailed"
    /\ UNCHANGED <<gen, potentialField, stepper, grid, options, navState, fbState, findPathVars>>

\* phase 2 is entered if fallback is enabled: the transition step, and the
\* Ring Search's stepIterator starts from primaryExplored as visited
IterTransition ==
    /\ pc = "primaryFailed"
    /\ IF FallbackEnabled(options)
       THEN /\ yielded' = Append(yielded,
                             PathfindingStep("Transition",
                                "Switching to Completeness Fallback",
                                <<>>, FALSE, primaryExplored(yielded)))
            /\ fbState' = markExistingExplored(initializeState(grid),
                                                primaryExplored(yielded))
            /\ pc' = "fallback"
       ELSE /\ yielded' = yielded
            /\ fbState' = fbState
            /\ pc' = "final"
    /\ UNCHANGED <<gen, potentialField, stepper, grid, options, navState, findPathVars>>

\* one turn of the Ring Search's loop: processSingleCell and its step,
\* forwarded and tested; then its 'Goal found' step if the goal was found,
\* or advanceToNextRing and its 'Advancing' step if the ring is used up and
\* the next one is not empty
IterRingStep ==
    /\ pc = "fallback"
    /\ fbState.currentRing # <<>>
    /\ LET r == processSingleCell(grid, fbState)
           path == IF r.goalFound
                   THEN reconstructPath(grid, r.state, grid.goal)
                   ELSE <<>>
           lastIsGoal == path # <<>> /\ pointsEqual(path[Len(path)], grid.goal)
           step == PathfindingStep("Fallback", "Fallback ring search",
                      path, lastIsGoal, r.state.visited)
           found == PathfindingStep("Fallback",
                       "Goal found by completeness fallback!",
                       path, lastIsGoal, r.state.visited)
           adv == IF r.state.currentRing = <<>>
                  THEN advanceToNextRing(r.state)
                  ELSE r.state
           advancing == PathfindingStep("Fallback", "Advancing to distance ring",
                           <<>>, FALSE, adv.visited)
       IN  IF pathEndsAtGoal(step)
           THEN /\ fbState' = r.state
                /\ yielded' = Append(yielded, step)
                /\ pc' = "done"
           ELSE IF r.goalFound
           THEN /\ fbState' = r.state
                /\ yielded' = yielded \o <<step, found>>
                /\ pc' = IF pathEndsAtGoal(found) THEN "done" ELSE "final"
           ELSE /\ fbState' = adv
                /\ yielded' = yielded \o <<step>> \o
                      (IF r.state.currentRing = <<>> /\ adv.currentRing # <<>>
                       THEN <<advancing>> ELSE <<>>)
                /\ pc' = "fallback"
    /\ UNCHANGED <<gen, potentialField, stepper, grid, options, navState, findPathVars>>

\* the Ring Search's loop has ended without the goal: its 'No path exists'
\* step, forwarded and tested, and the end of its generator
IterRingEnd ==
    /\ pc = "fallback"
    /\ fbState.currentRing = <<>>
    /\ LET step == PathfindingStep("Fallback",
                      "No path exists - completeness fallback exhausted all possibilities",
                      <<>>, FALSE, fbState.visited)
       IN  /\ yielded' = Append(yielded, step)
           /\ pc' = IF pathEndsAtGoal(step) THEN "done" ELSE "final"
    /\ UNCHANGED <<gen, potentialField, stepper, grid, options, navState, fbState, findPathVars>>

\* the final failure step, and stepIterator ends
IterFinal ==
    /\ pc = "final"
    /\ yielded' = Append(yielded,
                     PathfindingStep("Final", "No path exists in this maze",
                        <<>>, FALSE, primaryExplored(yielded)))
    /\ pc' = "done"
    /\ UNCHANGED <<gen, potentialField, stepper, grid, options, navState, fbState, findPathVars>>

IterNext ==
    \/ IterStart
    \/ IterNavStep
    \/ IterNavEnd
    \/ IterTransition
    \/ IterRingStep
    \/ IterRingEnd
    \/ IterFinal

IterSpec == IterInit /\ [][IterNext]_vars

\* ------------------------------------------------- editing a Grid

\* the cells the editor writes to, and a point outside the grid
EditPoints == { <<0, 0>>, <<1, 0>>, <<0, 1>>, <<1, 1>> }

OutsidePoint == <<Width, 0>>

CellTypes == { "empty", "wall", "start", "goal" }

\* createEmptyGrid(Width, Height, start, goal) with two different points
GridInit ==
    /\ \E s \in EditPoints, t \in EditPoints :
          /\ s # t
          /\ grid = createEmptyGrid(s, t)
    /\ fbState = Null
    /\ fbPc = "idle"
    /\ fbExisting = 0
    /\ fbResult = Null
    /\ options = Null
    /\ navState = Null
    /\ pc = "idle"
    /\ jobs = <<>>
    /\ timer = "unset"
    /\ deadline = "ahead"
    /\ primary = Null
    /\ outcome = Null
    /\ yielded = <<>>
    /\ potentialField = Null
    /\ stepper = Null
    /\ gen = Null

\* setCell(grid, point, type)
GridSetCell ==
    /\ \E point \in EditPoints \cup { OutsidePoint }, type \in CellTypes :
          grid' = setCell(grid, point, type)
    /\ UNCHANGED <<gen, potentialField, stepper, ringVars, solverVars>>

\* grid = updateStartGoal(grid, newStart, newGoal)
GridUpdateStartGoal ==
    /\ \E newStart \in EditPoints \cup { OutsidePoint },
          newGoal \in EditPoints \cup { OutsidePoint } :
          grid' = updateStartGoal(grid, newStart, newGoal)
    /\ UNCHANGED <<gen, potentialField, stepper, ringVars, solverVars>>

GridNext == GridSetCell \/ GridUpdateStartGoal

GridSpec == GridInit /\ [][GridNext]_vars

\* ------------------------------------- generateRandomObstaclesMaze

\* the size the generator is asked for
GenWidth == 5
GenHeight == 5

\* how many border cells the border pass turns into walls, at most
MaxBorderWalls == 2

\* ensureConnectivity's maxAttempts
EnsureMaxAttempts == 50

\* options.obstaclesDensity, in percent
Densities == { 5, 10 }

\* the cells the shuffled possiblePositions starts with, and rng.choice picks
ObstacleCandidates ==
    { <<1, 0>>, <<0, 1>>, <<1, 1>>, <<2, 2>>, <<GenWidth - 2, 0>>,
      <<GenWidth - 1, 1>> }

Min(a, b) == IF a < b THEN a ELSE b

Max(a, b) == IF a > b THEN a ELSE b

\* createEmptyGrid(GenWidth, GenHeight): start at (1,1), goal at
\* (width - 2, height - 2), both clamped into the grid
createEmptyGridOfSize(width, height) ==
    LET validStart == << Max(0, Min(1, width - 1)), Max(0, Min(1, height - 1)) >>
        validGoal  == << Max(0, Min(width - 2, width - 1)),
                         Max(0, Min(height - 2, height - 1)) >>
    IN  [cells |-> [p \in (0 .. width - 1) \X (0 .. height - 1) |->
                       IF p = validGoal THEN "goal"
                       ELSE IF p = validStart THEN "start"
                       ELSE "empty"],
         start |-> validStart,
         goal  |-> validGoal]

\* setCell on a point of the grid, with type Wall or Empty
writeCell(g, point, type) == [g EXCEPT !.cells[point] = type]

\* the four neighbours left, right, up, down that lie in the grid
neighborsInGrid(g, p) ==
    SelectSeq(<< <<p[1] - 1, p[2]>>, <<p[1] + 1, p[2]>>,
                 <<p[1], p[2] - 1>>, <<p[1], p[2] + 1>> >>,
              LAMBDA n : n \in DOMAIN g.cells)

RECURSIVE flood(_, _, _)
\* the visited set of hasPath's breadth-first search, queue the cells
\* visited last
flood(g, visited, queue) ==
    LET found == { n \in UNION { { <<c[1], c[2] - 1>>, <<c[1], c[2] + 1>>,
                                   <<c[1] - 1, c[2]>>, <<c[1] + 1, c[2]>> } :
                                 c \in queue } :
                     /\ n \in DOMAIN g.cells
                     /\ g.cells[n] # "wall"
                     /\ n \notin visited }
    IN  IF found = {} THEN visited ELSE flood(g, visited \cup found, found)

\* hasPath(grid): the search from grid.start dequeues grid.goal
hasPath(g) == g.goal \in flood(g, {g.start}, {g.start})

\* rng.randomInt(min, max): floor(random * (max - min)) + min
randomInt(min, max) == IF max > min THEN min .. (max - 1) ELSE { min }

\* the grids placeStartAndGoalStrategically can leave: two different corners,
\* a position in each corner's margin, clamped, then made different
placeStartAndGoalStrategically(g, width, height) ==
    LET corners == { <<0, 0>>, <<width - 1, 0>>, <<0, height - 1>>,
                     <<width - 1, height - 1>> }
        margin  == Min(Min((width * 15) \div 100, (height * 15) \div 100), 3)
        xs(c)   == IF c[1] = 0 THEN randomInt(0, margin)
                   ELSE randomInt(width - margin, width)
        ys(c)   == IF c[2] = 0 THEN randomInt(0, margin)
                   ELSE randomInt(height - margin, height)
        clampX(x) == Max(0, Min(x, width - 1))
        clampY(y) == Max(0, Min(y, height - 1))
        placed(start, goal) ==
            LET same == start = goal
                goal2  == IF ~same THEN goal
                          ELSE IF goal[1] < width - 1 THEN <<goal[1] + 1, goal[2]>>
                          ELSE IF goal[2] < height - 1 THEN <<goal[1], goal[2] + 1>>
                          ELSE goal
                start2 == IF ~same \/ goal2 # goal THEN start
                          ELSE IF start[1] > 0 THEN <<start[1] - 1, start[2]>>
                          ELSE IF start[2] > 0 THEN <<start[1], start[2] - 1>>
                          ELSE start
            IN  [cells |-> [p \in DOMAIN g.cells |->
                               IF p = goal2 THEN "goal"
                               ELSE IF p = start2 THEN "start"
                               ELSE g.cells[p]],
                 start |-> start2,
                 goal  |-> goal2]
    IN  { placed(<<clampX(sx), clampY(sy)>>, <<clampX(gx), clampY(gy)>>) :
            <<sc, gc, sx, sy, gx, gy>> \in
              { t \in corners \X corners \X (0 .. width) \X (0 .. height)
                        \X (0 .. width) \X (0 .. height) :
                  /\ t[1] # t[2]
                  /\ t[3] \in xs(t[1]) /\ t[4] \in ys(t[1])
                  /\ t[5] \in xs(t[2]) /\ t[6] \in ys(t[2]) } }

isAdjacentToStartOrGoal(position, g) ==
    \E i \in 1 .. Len(neighborsInGrid(g, position)) :
       g.cells[neighborsInGrid(g, position)[i]] \in { "start", "goal" }

\* the grid after setting position to Wall and reverting it to Empty when
\* the wall cut start from goal
tryWall(g, position) ==
    LET walled == writeCell(g, position, "wall")
    IN  IF hasPath(walled) THEN walled ELSE writeCell(g, position, "empty")

\* createDirectPath(grid): the walls on the L-shaped path from start, first
\* along x, then along y, the goal's cell excluded, become Empty
createDirectPath(g) ==
    LET lo(a, b) == IF a < b THEN a ELSE b
        hi(a, b) == IF a > b THEN a ELSE b
        path == { p \in DOMAIN g.cells :
                    \/ /\ p[2] = g.start[2]
                       /\ p[1] >= lo(g.start[1], g.goal[1])
                       /\ p[1] <= hi(g.start[1], g.goal[1])
                       /\ p[1] # g.goal[1]
                    \/ /\ p[1] = g.goal[1]
                       /\ p[2] >= lo(g.start[2], g.goal[2])
                       /\ p[2] <= hi(g.start[2], g.goal[2])
                       /\ p[2] # g.goal[2] }
    IN  [g EXCEPT !.cells = [p \in DOMAIN g.cells |->
                               IF p \in path /\ g.cells[p] = "wall"
                               THEN "empty" ELSE g.cells[p]]]

RECURSIVE ensureConnectivity(_, _)
\* the grids ensureConnectivity(grid, rng) can leave, attempts walls removed
\* so far
ensureConnectivity(g, attempts) ==
    LET wallCells == { p \in DOMAIN g.cells : g.cells[p] = "wall" }
    IN  IF ~hasPath(g) /\ attempts < EnsureMaxAttempts /\ wallCells # {}
        THEN UNION { ensureConnectivity(writeCell(g, w, "empty"), attempts + 1) :
                        w \in wallCells }
        ELSE { IF ~hasPath(g) THEN createDirectPath(g) ELSE g }

\* the cells of the four borders
borderCells(g, width, height) ==
    { p \in DOMAIN g.cells :
        p[1] = 0 \/ p[1] = width - 1 \/ p[2] = 0 \/ p[2] = height - 1 }

\* the final check of addBorderWalls: with start cut from goal, the first
\* Wall among the neighbours of start becomes Empty
clearFirstWallAtStart(g) ==
    LET ns    == neighborsInGrid(g, g.start)
        walls == SelectSeq(ns, LAMBDA n : g.cells[n] = "wall")
    IN  IF ~hasPath(g) /\ walls # <<>>
        THEN writeCell(g, Head(walls), "empty")
        ELSE g

\* addBorderWalls(grid, rng, probability), picked the set of border cells
\* for which rng.randomBool(probability) came out true on an Empty cell
addBorderWalls(g, picked) ==
    clearFirstWallAtStart(
        [g EXCEPT !.cells = [p \in DOMAIN g.cells |->
                               IF p \in picked THEN "wall" ELSE g.cells[p]]])

\* density clamped to [0.1, 0.6], in percent
clampDensity(obstaclesDensity) == Max(10, Min(60, obstaclesDensity))

\* targetObstacles = floor((width * height - 2) * density)
targetObstacles(width, height, obstaclesDensity) ==
    ((width * height - 2) * clampDensity(obstaclesDensity)) \div 100

\* maxAttempts = min(targetObstacles * 3, possiblePositions.length)
maxAttempts(width, height, target) == Min(target * 3, width * height - 2)

GenInit ==
    /\ grid = Null
    /\ gen = [pc |-> "idle"]
    /\ fbState = Null
    /\ fbPc = "idle"
    /\ fbExisting = 0
    /\ fbResult = Null
    /\ options = Null
    /\ navState = Null
    /\ pc = "idle"
    /\ jobs = <<>>
    /\ timer = "unset"
    /\ deadline = "ahead"
    /\ primary = Null
    /\ outcome = Null
    /\ yielded = <<>>
    /\ potentialField = Null
    /\ stepper = Null

\* generateRandomObstaclesMaze(options) up to its placement loop
GenStart ==
    /\ gen.pc = "idle"
    /\ \E obstaclesDensity \in Densities :
       \E g \in placeStartAndGoalStrategically(
                   createEmptyGridOfSize(GenWidth, GenHeight), GenWidth, GenHeight) :
          /\ grid' = g
          /\ gen' = [pc               |-> "placing",
                     targetObstacles  |-> targetObstacles(GenWidth, GenHeight,
                                                          obstaclesDensity),
                     obstaclesPlaced  |-> 0,
                     positionIndex    |-> 0,
                     tried            |-> {}]
    /\ UNCHANGED <<ringVars, solverVars, potentialField, stepper>>

\* one turn of the placement loop: the next position of the shuffled list,
\* then, now and then, a position picked by rng.choice
GenPlaceObstacle ==
    /\ gen.pc = "placing"
    /\ gen.obstaclesPlaced < gen.targetObstacles
    /\ gen.positionIndex < maxAttempts(GenWidth, GenHeight, gen.targetObstacles)
    /\ \E position \in (ObstacleCandidates \ gen.tried) \ {grid.start, grid.goal} :
       \E variety \in BOOLEAN :
       \E varietyPosition \in ObstacleCandidates \ {grid.start, grid.goal} :
          LET g1      == tryWall(grid, position)
              placed1 == gen.obstaclesPlaced
                           + (IF g1.cells[position] = "wall" THEN 1 ELSE 0)
              doVariety == /\ 10 * placed1 < 8 * gen.targetObstacles
                           /\ variety
                           /\ g1.cells[varietyPosition] = "empty"
                           /\ ~isAdjacentToStartOrGoal(varietyPosition, g1)
              g2      == IF doVariety THEN tryWall(g1, varietyPosition) ELSE g1
              placed2 == placed1
                           + (IF doVariety /\ g2.cells[varietyPosition] = "wall"
                              THEN 1 ELSE 0)
          IN  /\ grid' = g2
              /\ gen' = [gen EXCEPT !.obstaclesPlaced = placed2,
                                    !.positionIndex = @ + 1,
                                    !.tried = @ \cup {position}]
    /\ UNCHANGED <<ringVars, solverVars, potentialField, stepper>>

\* the loop has ended: ensureConnectivity(grid, rng)
GenEnsureConnectivity ==
    /\ gen.pc = "placing"
    /\ \/ gen.obstaclesPlaced >= gen.targetObstacles
       \/ gen.positionIndex >= maxAttempts(GenWidth, GenHeight, gen.targetObstacles)
    /\ grid' \in ensureConnectivity(grid, 0)
    /\ gen' = [gen EXCEPT !.pc = "connected"]
    /\ UNCHANGED <<ringVars, solverVars, potentialField, stepper>>

\* rng.randomBool(0.3) came out true: addBorderWalls, then return grid
GenAddBorderWalls ==
    /\ gen.pc = "connected"
    /\ \E picked \in SUBSET { p \in borderCells(grid, GenWidth, GenHeight) :
                                grid.cells[p] = "empty" } :
          /\ Cardinality(picked) <= MaxBorderWalls
          /\ grid' = addBorderWalls(grid, picked)
    /\ gen' = [gen EXCEPT !.pc = "returned"]
    /\ UNCHANGED <<ringVars, solverVars, potentialField, stepper>>

\* rng.randomBool(0.3) came out false: return grid
GenReturn ==
    /\ gen.pc = "connected"
    /\ gen' = [gen EXCEPT !.pc = "returned"]
    /\ UNCHANGED <<grid, ringVars, solverVars, potentialField, stepper>>

GenNext ==
    \/ GenStart
    \/ GenPlaceObstacle
    \/ GenEnsureConnectivity
    \/ GenReturn
    \/ GenAddBorderWalls

GenSpec == GenInit /\ [][GenNext]_vars

\* ------------------------- GradientFieldPathfinder.buildPotentialField

FieldInit ==
    /\ grid \in Grids
    /\ fbState = Null
    /\ fbPc = "idle"
    /\ fbExisting = 0
    /\ fbResult = Null
    /\ options = Null
    /\ navState = Null
    /\ pc = "idle"
    /\ jobs = <<>>
    /\ timer = "unset"
    /\ deadline = "ahead"
    /\ primary = Null
    /\ outcome = Null
    /\ yielded = <<>>
    /\ gen = Null
    /\ potentialField = Null
    /\ stepper = Null

\* the wavefront expansion of buildPotentialField()
BuildPotentialField ==
    /\ potentialField = Null
    /\ potentialField' = wavefrontPotential(grid)
    /\ UNCHANGED <<grid, ringVars, solverVars, gen, stepper>>

FieldNext == BuildPotentialField

FieldSpec == FieldInit /\ [][FieldNext]_vars

\* ------------------------------------------- IntegratedSolver.step

\* the grids step() is run on: start in the middle of the grid
StepGrids == { g \in Grids : g.start = <<1, 1>> }

\* the step-by-step fields of a new IntegratedSolver; lastReturn is what the
\* last call of step() returned
newStepper ==
    [isInitialized  |-> FALSE,
     isComplete     |-> FALSE,
     stepCount      |-> 0,
     queue          |-> <<>>,
     visited        |-> {},
     exploredPoints |-> <<>>,
     frontierPoints |-> <<>>,
     currentResult  |-> Null,
     lastReturn     |-> Null]

\* reset(): the step-by-step fields
reset(s) == [newStepper EXCEPT !.lastReturn = s.lastReturn]

initializeForStepping_WithoutGuard(g, s) ==
    [s EXCEPT !.queue = << [point |-> g.start, path |-> <<g.start>>] >>,
              !.visited = {g.start},
              !.exploredPoints = <<>>,
              !.frontierPoints = <<g.start>>,
              !.isInitialized = TRUE,
              !.isComplete = FALSE,
              !.stepCount = 0]

\* initializeForStepping()
initializeForStepping(g, s) ==
    IF s.isInitialized THEN s
    ELSE [s EXCEPT !.queue = << [point |-> g.start, path |-> <<g.start>>] >>,
                   !.visited = {g.start},
                   !.exploredPoints = <<>>,
                   !.frontierPoints = <<g.start>>,
                   !.isInitialized = TRUE,
                   !.isComplete = FALSE,
                   !.stepCount = 0]

\* the moves one by one, as they are added
pushIf(cond, directions, d) == IF cond THEN Append(directions, d) ELSE directions

hasDirection(directions, d) == \E i \in 1 .. Len(directions) : directions[i] = d

\* the directions step() tries from a cell dx, dy away from the goal: the
\* moves towards the goal, then, if dx # 0, down and up, and, if dy # 0,
\* right and left, each unless it is there already
directions(dx, dy) ==
    LET d1 == pushIf(dx > 0, <<>>, <<1, 0>>)
        d2 == pushIf(dx < 0, d1, <<-1, 0>>)
        d3 == pushIf(dy > 0, d2, <<0, 1>>)
        d4 == pushIf(dy < 0, d3, <<0, -1>>)
        d5 == pushIf(dx # 0 /\ ~hasDirection(d4, <<0, 1>>), d4, <<0, 1>>)
        d6 == pushIf(dx # 0 /\ ~hasDirection(d5, <<0, -1>>), d5, <<0, -1>>)
        d7 == pushIf(dy # 0 /\ ~hasDirection(d6, <<1, 0>>), d6, <<1, 0>>)
    IN  pushIf(dy # 0 /\ ~hasDirection(d7, <<-1, 0>>), d7, <<-1, 0>>)

RECURSIVE enqueueNeighbors(_, _, _, _, _)
\* the for loop over directions: an in-bounds, non-Wall, unvisited neighbor
\* is marked visited and queued with its path; acc is [visited, queue,
\* newFrontier]
enqueueNeighbors(g, current, dirs, acc, i) ==
    IF i > Len(dirs) THEN acc
    ELSE LET neighbor == << current.point[1] + dirs[i][1],
                            current.point[2] + dirs[i][2] >>
         IN  IF isWalkable(g, neighbor) /\ neighbor \notin acc.visited
             THEN enqueueNeighbors(g, current, dirs,
                      [visited     |-> acc.visited \cup {neighbor},
                       queue       |-> Append(acc.queue,
                                          [point |-> neighbor,
                                           path  |-> Append(current.path, neighbor)]),
                       newFrontier |-> Append(acc.newFrontier, neighbor)],
                      i + 1)
             ELSE enqueueNeighbors(g, current, dirs, acc, i + 1)

\* what step() returns, the fields that are not times
StepReturn(isComplete, pathFound, exploredCells, frontierCells, path) ==
    [isComplete    |-> isComplete,
     pathFound     |-> pathFound,
     exploredCells |-> exploredCells,
     frontierCells |-> frontierCells,
     finalPath     |-> path]

\* step(): the fields after the call, lastReturn holding what it returned
step(g, s0) ==
    LET s == initializeForStepping(g, s0)
    IN  IF s.isComplete
        THEN [s EXCEPT !.lastReturn =
                 StepReturn(TRUE,
                            s.currentResult # Null /\ s.currentResult.success,
                            s.exploredPoints, <<>>,
                            IF s.currentResult # Null
                            THEN s.currentResult.path ELSE <<>>)]
        ELSE IF s.queue = <<>>
        THEN [s EXCEPT !.stepCount = @ + 1,
                       !.isComplete = TRUE,
                       !.lastReturn = StepReturn(TRUE, FALSE, s.exploredPoints,
                                                 <<>>, <<>>)]
        ELSE LET current  == Head(s.queue)
                 explored == Append(s.exploredPoints, current.point)
             IN  IF pointsEqual(current.point, g.goal)
                 THEN [s EXCEPT !.stepCount = @ + 1,
                                !.queue = Tail(s.queue),
                                !.exploredPoints = explored,
                                !.isComplete = TRUE,
                                !.currentResult = [success |-> TRUE,
                                                   path    |-> current.path],
                                !.lastReturn = StepReturn(TRUE, TRUE, explored,
                                                  s.frontierPoints, current.path)]
                 ELSE LET acc == enqueueNeighbors(g, current,
                                    directions(g.goal[1] - current.point[1],
                                               g.goal[2] - current.point[2]),
                                    [visited     |-> s.visited,
                                     queue       |-> Tail(s.queue),
                                     newFrontier |-> <<>>],
                                    1)
                      IN  [s EXCEPT !.stepCount = @ + 1,
                                    !.queue = acc.queue,
                                    !.visited = acc.visited,
                                    !.exploredPoints = explored,
                                    !.frontierPoints = acc.newFrontier,
                                    !.lastReturn = StepReturn(FALSE, FALSE, explored,
                                                      acc.newFrontier, <<>>)]

StepInit ==
    /\ grid \in StepGrids
    /\ stepper = newStepper
    /\ fbState = Null
    /\ fbPc = "idle"
    /\ fbExisting = 0
    /\ fbResult = Null
    /\ options = Null
    /\ navState = Null
    /\ pc = "idle"
    /\ jobs = <<>>
    /\ timer = "unset"
    /\ deadline = "ahead"
    /\ primary = Null
    /\ outcome = Null
    /\ yielded = <<>>
    /\ gen = Null
    /\ potentialField = Null

\* a call of step()
StepCall ==
    /\ stepper' = step(grid, stepper)
    /\ UNCHANGED <<grid, ringVars, solverVars, gen, potentialField>>

\* a call of reset(), or of updateOptions(), which ends in reset()
StepReset ==
    /\ stepper' = reset(stepper)
    /\ UNCHANGED <<grid, ringVars, solverVars, gen, potentialField>>

StepNext == StepCall \/ StepReset

StepSpec == StepInit /\ [][StepNext]_vars

\* ------------------------------------- claims on IntegratedSolver.findPath

\* the Navigator's attempt gave a result with success = true
NavSucceeded ==
    /\ primary # Null
    /\ primary.kind = "result"
    /\ primary.result.success

\* the Navigator's attempt gave a result with success = false
NavFailedResult ==
    /\ primary # Null
    /\ primary.kind = "result"
    /\ ~primary.result.success

\* the Ring Search was run by this findPath
RingRan == fbPc # "idle"

\* C2: on a grid in which a path from start to goal exists, with
\* enableFallback = true, IntegratedSolver.findPath() returns success = true
\* whatever the Navigator phase gave.
C2_FallbackGuarantee ==
    (pc = "done" /\ Reachable(grid) /\ options.enableFallback)
        => (outcome.kind = "resolved" /\ outcome.result.success)

\* C5: IntegratedSolver.findPath() never rejects: whatever the Navigator and
\* the Ring Search gave, the call resolves to a result, and the result says
\* success = false when neither phase found a path.
C5_FindPathNeverRejects ==
    pc = "done" =>
        /\ outcome.kind = "resolved"
        /\ (~NavSucceeded /\ ~(RingRan /\ fbResult.success))
              => outcome.result.success = FALSE

C5_Witness ==
    /\ pc = "done"
    /\ primary.kind = "error"
    /\ outcome.kind = "resolved"
    /\ outcome.result.success = FALSE

\* C6: the Ring Search is started only after the Navigator's attempt has
\* ended in failure and only when enableFallback is true; when the Navigator
\* succeeds, findPath returns the Navigator's path with usedFallback = false
\* and the Ring Search is never run.
C6_FallbackOnlyAfterFailure ==
    /\ RingRan => (primary # Null /\ ~NavSucceeded /\ options.enableFallback)
    /\ (pc = "done" /\ NavSucceeded) =>
          /\ ~RingRan
          /\ outcome.kind = "resolved"
          /\ outcome.result.success
          /\ outcome.result.path = primary.result.path
          /\ outcome.result.usedFallback = FALSE

C6_Witness ==
    /\ pc = "done"
    /\ NavSucceeded
    /\ Len(primary.result.path) >= 3
    /\ options.enableFallback

\* C7: when the Navigator returns a failed result and the Ring Search then
\* succeeds (mergeStats enabled), the exploredCount of findPath's result is
\* the Navigator's explored count plus the number of cells the Ring Search
\* itself explored, each phase counted once.
C7_MergedExploredCount ==
    (pc = "done" /\ NavFailedResult /\ RingRan /\ fbResult.success /\ options.mergeStats)
        => outcome.result.exploredCount
             = primary.result.exploredCount + fbState.exploredCount

\* C8: when fallback is disabled or the Ring Search also fails, findPath
\* returns success = false with an empty path, pathLength 0 and an
\* exploredCount that adds up the explored counts of every phase that ran.
C8_FailureAggregatesExplored ==
    (pc = "done" /\ outcome.kind = "resolved" /\ ~outcome.result.success) =>
        /\ outcome.result.path = <<>>
        /\ outcome.result.pathLength = 0
        /\ outcome.result.exploredCount
             = Cardinality(navState.exploredCells)
               + (IF RingRan THEN fbState.exploredCount ELSE 0)

\* C9: if the Navigator's findPath has not completed when primaryTimeout ms
\* have elapsed, the primary attempt ends as failed by timeout (the timer
\* wins the race), without waiting for the Navigator's run to finish.
C9_TimeoutPreempts ==
    (pc \in {"resumed", "done"} /\ deadline = "duringRun")
        => (primary.kind = "error" /\ primary.error = "timeout")

\* ------------------------------------ claims on IntegratedSolver.stepIterator

\* the last element of a yielded step's path has the goal's coordinates
EndsAtGoal(s) == s.path # <<>> /\ s.lastIsGoal

\* the positions in yielded of the steps with a tag
Tagged(tag) == { i \in DOMAIN yielded : yielded[i].tag = tag }

\* the order of the tags in a run
TagRank(tag) ==
    CASE tag = "Gradient Field" -> 1
      [] tag = "Transition"     -> 2
      [] tag = "Fallback"       -> 3
      [] tag = "Final"          -> 4

\* C10: in the sequence IntegratedSolver.stepIterator() yields, every
\* '[Gradient Field]' step precedes the transition marker and every
\* '[Fallback]' step follows it; there is exactly one transition marker if
\* the Navigator phase ended without a goal-reaching step and fallback is
\* enabled, and none otherwise; and the sequence ends at the first step whose
\* path ends at the goal, or else with exactly one '[Final]' step.
C10_StepSequenceShape ==
    LET n == Len(yielded)
    IN  /\ \A i, j \in 1 .. n :
              i < j => TagRank(yielded[i].tag) <= TagRank(yielded[j].tag)
        /\ \A j \in Tagged("Fallback") : \E i \in Tagged("Transition") : i < j
        /\ Cardinality(Tagged("Transition")) <= 1
        /\ \A i \in 1 .. n :
              (EndsAtGoal(yielded[i]) \/ yielded[i].tag = "Final") => i = n
        /\ pc = "done" =>
              /\ n > 0
              /\ EndsAtGoal(yielded[n]) \/ yielded[n].tag = "Final"
              /\ Cardinality(Tagged("Transition")) = 1
                    <=> /\ options.enableFallback
                        /\ \A i \in Tagged("Gradient Field") :
                              ~EndsAtGoal(yielded[i])

C10_Witness ==
    /\ pc = "done"
    /\ Cardinality(Tagged("Gradient Field")) >= 2
    /\ Cardinality(Tagged("Transition")) = 1
    /\ Cardinality(Tagged("Fallback")) >= 3
    /\ yielded[Len(yielded)].tag = "Fallback"
    /\ EndsAtGoal(yielded[Len(yielded)])

\* ------------------------------------------------ claims on the ring search

\* a sequence of points each 4-adjacent to its predecessor, none a Wall,
\* from start to goal
ValidPath(g, path) ==
    /\ path # <<>>
    /\ path[1] = g.start
    /\ path[Len(path)] = g.goal
    /\ \A i \in 1 .. Len(path) : NotWall(g, path[i])
    /\ \A i \in 1 .. Len(path) - 1 : Adjacent4(path[i], path[i + 1])

\* C1: whenever the goal is reachable from start through 4-connected
\* non-Wall cells, CompletenessFallback.findPath() (no pre-seeding) returns
\* success = true with a non-empty path.
C1_RingSearchComplete ==
    (fbPc = "done" /\ Reachable(grid))
        => (fbResult.success /\ fbResult.path # <<>>)

\* C3: whenever the goal is not reachable from start,
\* CompletenessFallback.findPath() returns success = false with an empty
\* path and pathLength 0.
C3_UnreachableReportsFailure ==
    (fbPc = "done" /\ ~Reachable(grid))
        => /\ fbResult.success = FALSE
           /\ fbResult.path = <<>>
           /\ fbResult.pathLength = 0

C3_Witness ==
    /\ fbPc = "done"
    /\ ~Reachable(grid)
    /\ fbState.exploredCount > 1
    /\ fbResult.success = FALSE

\* C4: every path CompletenessFallback.findPath() returns with
\* success = true starts at grid.start, ends at grid.goal, has each cell
\* 4-adjacent to its predecessor and contains no Wall cell.
C4_ReturnedPathValid ==
    (fbPc = "done" /\ fbResult.success) => ValidPath(grid, fbResult.path)

C4_Witness ==
    /\ fbPc = "done"
    /\ fbResult.success
    /\ Len(fbResult.path) >= 4
    /\ \E p \in AllPoints : grid.cells[p] = "wall"

\* C11: the Ring Search is deterministic: every run of
\* CompletenessFallback.findPath() on a grid, the first on an instance or a
\* repeated one, returns the same success, path, pathLength and
\* exploredCount, those of a run from a fresh state.
C11_RingSearchDeterministic ==
    /\ fbPc = "done" => fbResult = fallbackFindPath(grid, fbExisting).result
    /\ (fbPc = "ring" /\ fbResult # Null)
          => RingOutcome(grid, fbState, fbExisting) = fbResult

C11_Witness ==
    /\ fbPc = "ring"
    /\ fbResult # Null
    /\ fbResult.success
    /\ fbResult.pathLength >= 3
    /\ fbState.distance >= 2

\* ------------------------------------------- claims on the solvers' results

\* C12: if start and goal are the same cell, the Navigator's findPath()
\* returns success = true with a path of at most 2 points without making a
\* move or exploring a cell, CompletenessFallback.findPath() returns
\* success = true with a path of at most 2 cells without expanding a cell,
\* and IntegratedSolver.findPath() returns success = true with
\* usedFallback = false.
C12_StartEqualsGoal ==
    pointsEqual(grid.start, grid.goal) =>
        /\ navState # Null => navState.iteration = 0
        /\ primary # Null =>
              /\ primary.kind = "result"
              /\ primary.result.success
              /\ Len(primary.result.path) <= 2
              /\ primary.result.pathLength <= 2
              /\ primary.result.exploredCount = 0
        /\ pc = "done" =>
              /\ outcome.kind = "resolved"
              /\ outcome.result.success
              /\ outcome.result.usedFallback = FALSE
              /\ ~RingRan
        /\ LET fb == fallbackFindPath(grid, 0)
           IN  /\ fb.result.success
               /\ Len(fb.result.path) <= 2
               /\ fb.result.pathLength <= 2
               /\ fb.state.visited = {grid.start}

C12_Witness ==
    /\ pc = "done"
    /\ pointsEqual(grid.start, grid.goal)
    /\ options.enableFallback
    /\ outcome.result.pathLength = 2

C18_FailedResultsHaveEmptyPath ==
    /\ NavFailedResult =>
          (primary.result.path = <<>> /\ primary.result.pathLength = 0)
    /\ (fbResult # Null /\ ~fbResult.success) =>
          (fbResult.path = <<>> /\ fbResult.pathLength = 0)
    /\ (outcome # Null /\ outcome.kind = "resolved" /\ ~outcome.result.success) =>
          (outcome.result.path = <<>> /\ outcome.result.pathLength = 0)

\* C19: every path the Navigator's findPath() returns with success = true
\* (and so IntegratedSolver.findPath() with usedFallback = false) starts at
\* start, ends at goal, has each cell 4-adjacent to its predecessor and no
\* Wall cell; the Navigator reports success only when the goal is reachable.
C19_NavigatorPathValid ==
    /\ NavSucceeded =>
          (ValidPath(grid, primary.result.path) /\ Reachable(grid))
    /\ (/\ outcome # Null
        /\ outcome.kind = "resolved"
        /\ outcome.result.success
        /\ ~outcome.result.usedFallback) =>
          ValidPath(grid, outcome.result.path)

\* ------------------------------------- more claims on the ring search

\* C14: whenever CompletenessFallback.findPath() returns success = true,
\* the returned path is a shortest 4-connected walkable path: its number of
\* cells is the breadth-first distance from start to goal plus one.
C14_ReturnedPathShortest ==
    (fbPc = "done" /\ fbResult.success) =>
        /\ Len(fbResult.path) = ShortestDistance(grid) + 1
        /\ fbResult.pathLength = ShortestDistance(grid) + 1

C14_Witness ==
    /\ fbPc = "done"
    /\ fbResult.success
    /\ fbResult.pathLength = 5
    /\ Cardinality({ p \in AllPoints : grid.cells[p] = "wall" }) = MaxWalls

\* C15: when CompletenessFallback.findPath() (no pre-seeding,
\* existingExploredCount = 0) finishes, by success or by exhaustion, its
\* exploredCount is the number of cells in the 4-connected walkable
\* component that contains start.
C15_ExploredCountIsComponentSize ==
    (fbPc = "done" /\ fbExisting = 0) =>
        fbResult.exploredCount = Cardinality(Component(grid, grid.start))

\* ------------------------------------------------- claims on the Grid

CountOfType(g, type) == Cardinality({ p \in AllPoints : g.cells[p] = type })

\* C16: after createEmptyGrid and any sequence of setCell and updateStartGoal
\* calls, exactly one cell has type Start and exactly one has type Goal, and
\* they are the cells at grid.start and grid.goal, which are in bounds.
C16_OneStartOneGoal ==
    /\ CountOfType(grid, "start") = 1
    /\ CountOfType(grid, "goal") = 1
    /\ getCell(grid, grid.start) = "start"
    /\ getCell(grid, grid.goal) = "goal"

\* C17: no solver operation changes the Grid: across any run of the
\* Navigator, the Ring Search and IntegratedSolver.findPath every cell type
\* and the start and goal coordinates are left unchanged.
C17_SolversLeaveGridUnchanged == [][grid' = grid]_vars

\* both solvers have run to their end on a grid with Wall cells
C17_Witness ==
    /\ pc = "done"
    /\ navState.iteration >= 1
    /\ RingRan
    /\ fbState.exploredCount >= 2
    /\ CountOfType(grid, "wall") = MaxWalls
    /\ CountOfType(grid, "start") = 1
    /\ CountOfType(grid, "goal") = 1

\* ------------------------------------------------- claims on the generator

\* C20: generateRandomObstaclesMaze returns, for every seed, every obstacle
\* density and every size of at least 5x5, a grid in which the goal is
\* reachable from start (hasPath(grid) is true), the optional border-wall
\* pass included.
C20_GeneratedMazeConnected ==
    gen.pc = "returned" => hasPath(grid)

\* ------------------------------------------- claims on the potential field

RECURSIVE DistanceFrom(_, _, _, _)
\* the 4-connected walkable distance from the cells of S to p, over cells not
\* in seen; Infinity when p cannot be reached
DistanceFrom(g, S, seen, p) ==
    LET next == { q \in AllPoints \ seen :
                    NotWall(g, q) /\ \E c \in S : Adjacent4(c, q) }
    IN  IF p \in S THEN 0
        ELSE IF next = {} THEN Infinity
        ELSE LET rest == DistanceFrom(g, next, seen \cup next, p)
             IN  IF rest = Infinity THEN Infinity ELSE rest + 1

\* C21: in the wavefront component of the potential field the goal holds 0,
\* every non-Wall cell reachable from the goal holds its shortest 4-connected
\* walkable distance to the goal, and every Wall cell and every cell
\* disconnected from the goal holds +infinity.
C21_WavefrontIsShortestDistance ==
    potentialField # Null =>
        /\ potentialField[grid.goal] = 0
        /\ \A p \in AllPoints :
              /\ potentialField[p] = DistanceFrom(grid, {grid.goal}, {grid.goal}, p)
              /\ (getCell(grid, p) = "wall" \/ p \notin Component(grid, grid.goal))
                    <=> potentialField[p] = Infinity
        /\ { p \in AllPoints : potentialField[p] # Infinity } = buildPotentialField(grid)

\* a field with a Wall, a cell cut off from the goal and a cell four steps away
C21_Witness ==
    /\ potentialField # Null
    /\ \E p \in AllPoints : getCell(grid, p) = "wall"
    /\ \E p \in AllPoints : getCell(grid, p) # "wall" /\ potentialField[p] = Infinity
    /\ \E p \in AllPoints : potentialField[p] = 4

\* ------------------------------------------- claims on the Navigator's run

\* the Navigator's findPath has resolved with a result
NavResolved == primary # Null /\ primary.kind = "result"

\* C22: the Navigator reports success = true only when its final position is
\* within goalThreshold of the goal (which it can be only in the goal's cell
\* or the cell before it on either axis); a run whose loop stopped because
\* the iteration counter reached maxIterations without being within the
\* threshold is reported as a failure.
C22_SuccessOnlyWithinThreshold ==
    NavResolved =>
        /\ primary.result.success <=> navState.reached
        /\ primary.result.success =>
              /\ grid.goal[1] - navState.cell[1] \in {0, 1}
              /\ grid.goal[2] - navState.cell[2] \in {0, 1}
        /\ (navState.iteration >= options.maxIterations /\ ~navState.reached)
              => ~primary.result.success

\* the loop stopped at maxIterations away from the goal
C22_Witness ==
    /\ NavResolved
    /\ navState.iteration = options.maxIterations
    /\ navState.iteration >= 2
    /\ ~navState.reached
    /\ ~primary.result.success
    /\ Reachable(grid)

\* a step of the Navigator's loop that detected a stuck position: the state
\* changed without the iteration counter advancing
StuckDetected ==
    /\ pc = "navigating"
    /\ navState' # navState
    /\ navState'.iteration = navState.iteration

CellsOf(ring) == { ring[i] : i \in 1 .. Len(ring) }

\* the Ring Search's stepIterator has been started by stepIterator
FallbackStarted == pc \in {"fallback", "final", "done"} /\ fbState # Null

\* C24: in CompletenessFallback.stepIterator(existingExplored) every cell of
\* existingExplored is treated as already visited: no such cell other than
\* start is ever in a ring (so none is dequeued as the current cell) or given
\* a parent during that run.
C24_ExistingExploredNeverExpanded ==
    FallbackStarted =>
        \A p \in primaryExplored(yielded) \ {grid.start} :
            /\ p \in fbState.visited
            /\ p \notin CellsOf(fbState.currentRing)
            /\ p \notin CellsOf(fbState.nextRing)
            /\ p \notin DOMAIN fbState.parent

\* the search has expanded start next to a pre-seeded walkable cell
C24_Witness ==
    /\ FallbackStarted
    /\ fbState.distance >= 1
    /\ \E p \in primaryExplored(yielded) \ {grid.start} :
          Adjacent4(p, grid.start) /\ isWalkable(grid, p)

\* C30: with enableFallback = true, stepIterator() yields the final
\* '[Final] No path exists in this maze' step only when the goal is
\* unreachable from start; whenever a path exists, the run ends with a step
\* whose path ends at the goal.
C30_FinalOnlyWhenUnreachable ==
    (pc = "done" /\ options.enableFallback /\ Reachable(grid)) =>
        /\ Tagged("Final") = {}
        /\ EndsAtGoal(yielded[Len(yielded)])

\* ------------------------------------- the ring search, at the end of a run

\* p waits in one of the two rings
InARing(p) ==
    p \in CellsOf(fbState.currentRing) \cup CellsOf(fbState.nextRing)

\* p was marked visited without being pushed to a ring: the cell it was
\* discovered from (its parent, dequeued at its own Manhattan distance from
\* start) saw it at a distance that is neither the ring's nor one more
NeverEnqueued(p) ==
    /\ p \in DOMAIN fbState.parent
    /\ RingOf(manhattanDistance(p, grid.start),
              manhattanDistance(fbState.parent[p], grid.start)) = "none"

\* p has been dequeued: it is visited, was pushed to a ring and has left it
Dequeued(p) ==
    /\ p \in fbState.visited
    /\ ~InARing(p)
    /\ ~NeverEnqueued(p)

\* C25: in the Ring Search every cell marked visited is eventually dequeued
\* and expanded in the same search, unless the goal is found first; a
\* neighbour discovered at a Manhattan distance that is neither d nor d + 1
\* is found later.  A search is a finite run, so at its end every visited
\* cell has been dequeued, or the goal was found.
C25_VisitedEventuallyExpanded ==
    fbPc = "done" =>
        \/ fbResult.success
        \/ \A p \in fbState.visited : Dequeued(p)

\* ------------------------------------- claims on IntegratedSolver.step

\* C26: on every expansion in IntegratedSolver.step() all four axis
\* neighbours of the expanded cell are considered for enqueueing (the moves
\* that reduce the remaining Manhattan distance to the goal first, then the
\* remaining moves): once a cell has been expanded, each of its walkable
\* neighbours has been marked visited.
C26_AllFourNeighboursConsidered ==
    stepper.isInitialized =>
        \A i \in 1 .. Len(stepper.exploredPoints) :
            LET c == stepper.exploredPoints[i]
            IN  ~pointsEqual(c, grid.goal) =>
                   \A n \in AllPoints :
                       (Adjacent4(c, n) /\ isWalkable(grid, n))
                          => n \in stepper.visited

\* no point twice
Distinct(points) ==
    \A i, j \in 1 .. Len(points) : points[i] = points[j] => i = j

\* the solver after one more call of step()
AfterStep == step(grid, stepper)

\* C29: IntegratedSolver.step() eventually completes and stays complete.
\* In every state of the solver, the next call before completion counts one
\* more step and, unless it completes, explores one more cell, no cell
\* twice, so that calls not interrupted by reset() or updateOptions()
\* complete within Width * Height + 1 of them; the next call after
\* completion returns isComplete = true with the same pathFound and the
\* same explored cells, and explores no further cell.
C29_StepCompletesAndStays ==
    /\ ~stepper.isComplete =>
         /\ AfterStep.stepCount
               = (IF stepper.isInitialized THEN stepper.stepCount ELSE 0) + 1
         /\ AfterStep.stepCount <= Width * Height + 1
         /\ AfterStep.lastReturn.isComplete = AfterStep.isComplete
         /\ ~AfterStep.isComplete =>
               /\ Len(AfterStep.exploredPoints) = AfterStep.stepCount
               /\ Distinct(AfterStep.exploredPoints)
    /\ stepper.isComplete =>
         /\ stepper.lastReturn.isComplete
         /\ AfterStep.isComplete
         /\ AfterStep.lastReturn.isComplete
         /\ AfterStep.lastReturn.pathFound = stepper.lastReturn.pathFound
         /\ AfterStep.lastReturn.exploredCells = stepper.lastReturn.exploredCells
         /\ AfterStep.exploredPoints = stepper.exploredPoints
         /\ AfterStep.visited = stepper.visited
         /\ AfterStep.queue = stepper.queue
         /\ AfterStep.stepCount = stepper.stepCount

\* step() was called again after the call that found the goal, with cells
\* still queued
C29_Witness ==
    /\ stepper.isComplete
    /\ stepper.lastReturn.pathFound
    /\ stepper.lastReturn.frontierCells = <<>>
    /\ stepper.frontierPoints # <<>>
    /\ stepper.queue # <<>>
    /\ stepper.stepCount >= 3

\* ---------------------------------------------- claims on the Navigator's run

\* a cell of the grid that is not a Wall
OpenCell(p) == getCell(grid, p) \notin {"none", "wall"}

\* C28: throughout any Navigator run the cell under the committed position
\* is in bounds and not a Wall, and so is every cell recorded in the
\* explored set and every point pushed on the path.
C28_CommittedCellWalkable ==
    navState # Null =>
        /\ OpenCell(navState.cell)
        /\ \A p \in navState.exploredCells : OpenCell(p)
        /\ \A i \in 1 .. Len(navState.path) : OpenCell(navState.path[i])

\* the Navigator has moved to another cell with a Wall next to it
C28_Witness ==
    /\ navState # Null
    /\ navState.iteration >= 2
    /\ navState.cell # grid.start
    /\ Cardinality(navState.exploredCells) >= 2
    /\ \E n \in Around(navState.cell) : getCell(grid, n) = "wall"

\* the performStep calls of the run so far: a call either commits a move
\* (iteration) or is an escape attempt (stuckCounter)
PerformStepCalls(st) == st.iteration + st.stuckCounter

\* C27: every Navigator run terminates in Reached, in failure by
\* maxIterations or in the thrown stuck failure.  While the loop of
\* navigateGradientField runs, every performStep call it can make next
\* advances iteration or stuckCounter by one, and throws only when
\* randomness is disabled or stuckCounter has reached escapeAttempts; the
\* number of performStep calls of a run never exceeds
\* maxIterations + escapeAttempts.
C27_NavigatorTerminates ==
    navState # Null /\ options # Null =>
        /\ navState.iteration <= options.maxIterations
        /\ navState.stuckCounter <= options.escapeAttempts
        /\ PerformStepCalls(navState)
              <= options.maxIterations + options.escapeAttempts
        /\ (pc = "navigating" /\ ~navState.reached
              /\ navState.iteration < options.maxIterations) =>
             /\ navState.stuckCounter < options.escapeAttempts
             /\ nextPositionCells(grid, navState) # {}
             /\ \A n \in nextPositionCells(grid, navState) :
                \A r \in isGoalReached(grid, n) :
                   LET next == performStep(options, navState, n, r)
                   IN  /\ PerformStepCalls(next.state)
                             = PerformStepCalls(navState) + 1
                       /\ next.thrown =>
                             \/ ~options.enableRandomness
                             \/ next.state.stuckCounter >= options.escapeAttempts

\* a run that ended in the thrown stuck failure after escapeAttempts escape
\* attempts had made VisitLimit + 1 moves before
C27_Witness ==
    /\ navState # Null
    /\ options # Null
    /\ pc # "navigating"
    /\ options.enableRandomness
    /\ navState.stuckCounter = options.escapeAttempts
    /\ navState.iteration = VisitLimit + 1

====
